---------------------------- MODULE Spec2Model ----------------------------
(***************************************************************************)
(* Recursive structural report of a parsed JSON value:                     *)
(* analizar_estructura_json of ejemplos/03_json/procesar_json.py.          *)
(* Further down: xml_to_dict and max_depth of ejemplos/01_xml/             *)
(* procesar_xml.py, and the flattening of json_nested_to_flat.             *)
(*                                                                         *)
(* The recursion of the function is modelled with an explicit call stack   *)
(* (pila).  Every frame holds the arguments of one call (datos, prefijo,   *)
(* max_profundidad) and the position of the call in the function body.     *)
(* The lines the function prints are collected, in order, in salida.       *)
(***************************************************************************)
EXTENDS Integers, Sequences, FiniteSets, TLC

VARIABLES
    datos,        \* the value handed to the outermost call (never reassigned)
    max_inicial,  \* the max_profundidad argument of the outermost call
    pila,         \* call stack, innermost call last
    salida,       \* the printed lines, in print order
    visitas,      \* positions of the nodes reached so far, in order
    resultado,    \* "en_curso" while running, "retorno" after the normal return
    element,      \* the element handed to xml_to_dict / max_depth
    result,       \* what xml_to_dict returned
    profundidad,  \* what max_depth returned
    df_flat,      \* the flattened record of json_nested_to_flat
    ramas,        \* the calls made for the entries of one dict, run apart
    archivos,     \* the files a function reads, removes or writes
    locales,      \* the local variables of the function that runs
    retorno       \* what that function returned or raised

\* the state of analizar_estructura_json
varsJson == <<datos, max_inicial, pila, salida, visitas, resultado>>

\* the state of the XML functions
varsXml == <<element, result, profundidad>>

\* the state of the functions that work on files
varsArchivos == <<archivos, locales, retorno>>

vars == <<datos, max_inicial, pila, salida, visitas, resultado,
          element, result, profundidad, df_flat, ramas,
          archivos, locales, retorno>>

\* the value of a variable that a run does not use
Nada == [tipo |-> "nada"]

-----------------------------------------------------------------------------
(* Bounds of the model.                                                    *)

\* largest number of nodes of an input tree
MaxNodos == 4

\* largest max_profundidad handed to the outermost call
MaxProf == 4

\* repr(valor)[:50]
LargoVista == 50

\* largest number of elements of an XML tree
MaxElementos == 4

\* largest number of lines of a JSON Lines file
MaxLineas == 3

\* largest number of edges of a graph
MaxAristas == 3

\* length of the top list: the slice [:3] of analizar_grafo_json
TopN == 3

-----------------------------------------------------------------------------
(* Values.  A value is a record                                            *)
(*   tipo   : type(v).__name__                                             *)
(*   repr   : repr(v) for a value that is neither dict nor list            *)
(*   claves : the keys of a dict, in insertion order                       *)
(*   hijos  : the values of a dict (same order) or the elements of a list  *)

Dict(cs, hs) == [tipo |-> "dict", repr |-> "", claves |-> cs, hijos |-> hs]

Lista(hs) == [tipo |-> "list", repr |-> "", claves |-> <<>>, hijos |-> hs]

Hoja(t, r) == [tipo |-> t, repr |-> r, claves |-> <<>>, hijos |-> <<>>]

\* a str of 58 characters: its repr (with the quotes) has 60
CadenaLarga ==
    "'abcdefghijklmnopqrstuvwxyzabcdefghijklmnopqrstuvwxyzabcdef'"

\* the leaves json.load produces
Escalares == {Hoja("int", "7"), Hoja("str", CadenaLarga)}

\* a value json.load never produces, but the parameter is typed Any
Ajenos == {Hoja("tuple", "(1, 2)")}

TiposEscalares == {"str", "int", "float", "bool", "NoneType"}

\* isinstance(v, dict), isinstance(v, list), isinstance(v, (dict, list))
EsDict(v) == v.tipo = "dict"

EsLista(v) == v.tipo = "list"

EsContenedor(v) == EsDict(v) \/ EsLista(v)

\* len(v) of a dict or list
Tam(v) == Len(v.hijos)

\* the keys of a dict with k entries, in insertion order
Claves(k) == [i \in 1..k |-> "k" \o ToString(i)]

Min(a, b) == IF a < b THEN a ELSE b

RECURSIVE ArbolesDe(_), Bosques(_, _)

\* the input trees with exactly n nodes
ArbolesDe(n) ==
    IF n = 1
    THEN Escalares \cup Ajenos \cup {Dict(<<>>, <<>>), Lista(<<>>)}
    ELSE UNION {{Dict(Claves(k), hs) : hs \in Bosques(n - 1, k)}
                  \cup {Lista(hs) : hs \in Bosques(n - 1, k)} : k \in 1..(n - 1)}

\* the sequences of k trees with n nodes in all
Bosques(n, k) ==
    IF k = 0
    THEN IF n = 0 THEN {<<>>} ELSE {}
    ELSE UNION {{<<t>> \o f : t \in ArbolesDe(m), f \in Bosques(n - m, k - 1)}
                  : m \in 1..(n - k + 1)}

Arboles == UNION {ArbolesDe(n) : n \in 1..MaxNodos}

Profundidades == (0 - 1)..MaxProf

-----------------------------------------------------------------------------
(* Positions: the node at position <<i1, ..., ik>> is child ik of ... of   *)
(* child i1 of the root (children counted from 1).                         *)

RECURSIVE Posiciones(_)

Posiciones(v) ==
    {<<>>} \cup UNION {{<<i>> \o p : p \in Posiciones(v.hijos[i])}
                         : i \in 1..Len(v.hijos)}

RECURSIVE NodoEn(_, _)

NodoEn(v, p) == IF p = <<>> THEN v ELSE NodoEn(v.hijos[Head(p)], Tail(p))

-----------------------------------------------------------------------------
(* The call stack.                                                         *)

\* a call analizar_estructura_json(d, pre, mp) about to run its first line;
\* pos is the position of d in the input
Llamada(d, pre, mp, pos) ==
    [datos |-> d, prefijo |-> pre, max_profundidad |-> mp,
     pc |-> "inicio", i |-> 1, pos |-> pos]

Cima == pila[Len(pila)]

Resto == SubSeq(pila, 1, Len(pila) - 1)

\* the frame on top replaced by f
ConCima(f) == Resto \o <<f>>

\* the innermost call returns
Retorna ==
    /\ pila' = Resto
    /\ resultado' = IF Len(pila) = 1 THEN "retorno" ELSE resultado

-----------------------------------------------------------------------------
(* The printed lines, as the fields the f-strings interpolate.             *)

\* print(f"{prefijo}: [profundidad máxima alcanzada]")
LineaLimite(pre, pos) == [clase |-> "limite", ruta |-> pre, nodo |-> pos]

\* print(f"{nuevo_prefijo}: {tipo} (tamaño={tamaño})")
LineaContenedor(pre, v, pos) ==
    [clase |-> "contenedor", ruta |-> pre, tipo |-> v.tipo, tam |-> Tam(v),
     nodo |-> pos]

\* repr(valor)[:50]
Vista(v) == SubSeq(v.repr, 1, Min(LargoVista, Len(v.repr)))

\* print(f"{nuevo_prefijo}: {tipo} = {repr(valor)[:50]}")
LineaValor(pre, v, pos) ==
    [clase |-> "valor", ruta |-> pre, tipo |-> v.tipo, vista |-> Vista(v),
     nodo |-> pos]

\* print(f"{prefijo}[0]: {type(datos[0]).__name__}")
LineaPrimero(pre, v, pos) ==
    [clase |-> "primero", ruta |-> pre \o "[0]", tipo |-> v.tipo, nodo |-> pos]

\* LineaResto counting every element of the list
LineaRestoTotal(pre, n, pos) ==
    [clase |-> "resto", ruta |-> pre \o "[1.." \o ToString(n) \o "]",
     mas |-> n, nodo |-> pos]

\* print(f"{prefijo}[1..{len(datos)-1}]: ... ({len(datos)-1} elementos más)")
LineaResto(pre, n, pos) ==
    [clase |-> "resto", ruta |-> pre \o "[1.." \o ToString(n - 1) \o "]",
     mas |-> n - 1, nodo |-> pos]

\* f"{prefijo}.{clave}" if prefijo else clave
NuevoPrefijo(pre, clave) == IF pre # "" THEN pre \o "." \o clave ELSE clave

-----------------------------------------------------------------------------
Init ==
    /\ datos \in Arboles
    /\ max_inicial \in Profundidades
    /\ pila = <<Llamada(datos, "", max_inicial, <<>>)>>
    /\ salida = <<>>
    /\ visitas = << <<>> >>
    /\ resultado = "en_curso"
    /\ element = Nada
    /\ result = Nada
    /\ profundidad = Nada
    /\ df_flat = Nada
    /\ ramas = Nada
    /\ archivos = Nada
    /\ locales = Nada
    /\ retorno = Nada

\* Limite without its return: the line is printed and the body goes on
LimiteSinReturn ==
    /\ pila # <<>>
    /\ Cima.pc = "inicio"
    /\ Cima.max_profundidad = 0
    /\ salida' = Append(salida, LineaLimite(Cima.prefijo, Cima.pos))
    /\ IF EsDict(Cima.datos)
       THEN /\ pila' = ConCima([Cima EXCEPT !.pc = "bucle", !.i = 1])
            /\ resultado' = resultado
       ELSE Retorna
    /\ UNCHANGED <<datos, max_inicial, visitas>>

\* if max_profundidad == 0: print(...); return
Limite ==
    /\ pila # <<>>
    /\ Cima.pc = "inicio"
    /\ Cima.max_profundidad = 0
    /\ salida' = Append(salida, LineaLimite(Cima.prefijo, Cima.pos))
    /\ Retorna
    /\ UNCHANGED <<datos, max_inicial, visitas>>

\* EntraDict reached without the depth test before it
EntraDictSinLimite ==
    /\ pila # <<>>
    /\ Cima.pc = "inicio"
    /\ EsDict(Cima.datos)
    /\ pila' = ConCima([Cima EXCEPT !.pc = "bucle", !.i = 1])
    /\ UNCHANGED <<datos, max_inicial, salida, visitas, resultado>>

\* if isinstance(datos, dict): for clave, valor in datos.items():
EntraDict ==
    /\ pila # <<>>
    /\ Cima.pc = "inicio"
    /\ Cima.max_profundidad # 0
    /\ EsDict(Cima.datos)
    /\ pila' = ConCima([Cima EXCEPT !.pc = "bucle", !.i = 1])
    /\ UNCHANGED <<datos, max_inicial, salida, visitas, resultado>>

\* ValorContenedor recursing with max_profundidad - 2
ValorContenedorSalto ==
    /\ pila # <<>>
    /\ Cima.pc = "bucle"
    /\ Cima.i <= Tam(Cima.datos)
    /\ LET clave == Cima.datos.claves[Cima.i]
           valor == Cima.datos.hijos[Cima.i]
           nuevo_prefijo == NuevoPrefijo(Cima.prefijo, clave)
           pos == Append(Cima.pos, Cima.i)
       IN /\ EsContenedor(valor)
          /\ salida' = Append(salida, LineaContenedor(nuevo_prefijo, valor, pos))
          /\ visitas' = Append(visitas, pos)
          /\ pila' = ConCima([Cima EXCEPT !.i = @ + 1])
                       \o <<Llamada(valor, nuevo_prefijo,
                                    Cima.max_profundidad - 2, pos)>>
    /\ UNCHANGED <<datos, max_inicial, resultado>>

\* one iteration of the loop whose valor is a dict or a list
ValorContenedor ==
    /\ pila # <<>>
    /\ Cima.pc = "bucle"
    /\ Cima.i <= Tam(Cima.datos)
    /\ LET clave == Cima.datos.claves[Cima.i]
           valor == Cima.datos.hijos[Cima.i]
           nuevo_prefijo == NuevoPrefijo(Cima.prefijo, clave)
           pos == Append(Cima.pos, Cima.i)
       IN /\ EsContenedor(valor)
          /\ salida' = Append(salida, LineaContenedor(nuevo_prefijo, valor, pos))
          /\ visitas' = Append(visitas, pos)
          /\ pila' = ConCima([Cima EXCEPT !.i = @ + 1])
                       \o <<Llamada(valor, nuevo_prefijo,
                                    Cima.max_profundidad - 1, pos)>>
    /\ UNCHANGED <<datos, max_inicial, resultado>>

\* ValorSimple assigning the path to prefijo itself: the next iteration of
\* the same loop builds its path on it
ValorSimpleAcumula ==
    /\ pila # <<>>
    /\ Cima.pc = "bucle"
    /\ Cima.i <= Tam(Cima.datos)
    /\ LET clave == Cima.datos.claves[Cima.i]
           valor == Cima.datos.hijos[Cima.i]
           nuevo_prefijo == NuevoPrefijo(Cima.prefijo, clave)
           pos == Append(Cima.pos, Cima.i)
       IN /\ ~EsContenedor(valor)
          /\ salida' = Append(salida, LineaValor(nuevo_prefijo, valor, pos))
          /\ visitas' = Append(visitas, pos)
          /\ pila' = ConCima([Cima EXCEPT !.i = @ + 1,
                                          !.prefijo = nuevo_prefijo])
    /\ UNCHANGED <<datos, max_inicial, resultado>>

\* one iteration of the loop whose valor is neither a dict nor a list
ValorSimple ==
    /\ pila # <<>>
    /\ Cima.pc = "bucle"
    /\ Cima.i <= Tam(Cima.datos)
    /\ LET clave == Cima.datos.claves[Cima.i]
           valor == Cima.datos.hijos[Cima.i]
           nuevo_prefijo == NuevoPrefijo(Cima.prefijo, clave)
           pos == Append(Cima.pos, Cima.i)
       IN /\ ~EsContenedor(valor)
          /\ salida' = Append(salida, LineaValor(nuevo_prefijo, valor, pos))
          /\ visitas' = Append(visitas, pos)
          /\ pila' = ConCima([Cima EXCEPT !.i = @ + 1])
    /\ UNCHANGED <<datos, max_inicial, resultado>>

\* ListaPrimero recursing with max_profundidad unchanged
ListaPrimeroSinBajar ==
    /\ pila # <<>>
    /\ Cima.pc = "inicio"
    /\ Cima.max_profundidad # 0
    /\ EsLista(Cima.datos)
    /\ Tam(Cima.datos) > 0
    /\ LET primero == Cima.datos.hijos[1]
           pos == Append(Cima.pos, 1)
           n == Tam(Cima.datos)
       IN /\ salida' = salida
                \o <<LineaPrimero(Cima.prefijo, primero, pos)>>
                \o (IF n > 1 THEN <<LineaResto(Cima.prefijo, n, Cima.pos)>>
                    ELSE <<>>)
          /\ visitas' = Append(visitas, pos)
          /\ pila' = ConCima([Cima EXCEPT !.pc = "fin"])
                       \o <<Llamada(primero, Cima.prefijo \o "[0]",
                                    Cima.max_profundidad, pos)>>
    /\ UNCHANGED <<datos, max_inicial, resultado>>

\* ListaPrimero taking the first element with datos.pop(0)
ListaPrimeroPop ==
    /\ pila # <<>>
    /\ Cima.pc = "inicio"
    /\ Cima.max_profundidad # 0
    /\ EsLista(Cima.datos)
    /\ Tam(Cima.datos) > 0
    /\ LET primero == Cima.datos.hijos[1]
           pos == Append(Cima.pos, 1)
           n == Tam(Cima.datos)
       IN /\ salida' = salida
                \o <<LineaPrimero(Cima.prefijo, primero, pos)>>
                \o (IF n > 1 THEN <<LineaResto(Cima.prefijo, n, Cima.pos)>>
                    ELSE <<>>)
          /\ visitas' = Append(visitas, pos)
          /\ pila' = ConCima([Cima EXCEPT !.pc = "fin"])
                       \o <<Llamada(primero, Cima.prefijo \o "[0]",
                                    Cima.max_profundidad - 1, pos)>>
          /\ datos' = IF Cima.pos = <<>>
                      THEN [datos EXCEPT !.hijos = Tail(@)]
                      ELSE datos
    /\ UNCHANGED <<max_inicial, resultado>>

\* elif isinstance(datos, list): if len(datos) > 0: ...
ListaPrimero ==
    /\ pila # <<>>
    /\ Cima.pc = "inicio"
    /\ Cima.max_profundidad # 0
    /\ EsLista(Cima.datos)
    /\ Tam(Cima.datos) > 0
    /\ LET primero == Cima.datos.hijos[1]
           pos == Append(Cima.pos, 1)
           n == Tam(Cima.datos)
       IN /\ salida' = salida
                \o <<LineaPrimero(Cima.prefijo, primero, pos)>>
                \o (IF n > 1 THEN <<LineaResto(Cima.prefijo, n, Cima.pos)>>
                    ELSE <<>>)
          /\ visitas' = Append(visitas, pos)
          /\ pila' = ConCima([Cima EXCEPT !.pc = "fin"])
                       \o <<Llamada(primero, Cima.prefijo \o "[0]",
                                    Cima.max_profundidad - 1, pos)>>
    /\ UNCHANGED <<datos, max_inicial, resultado>>

\* the function body ends without printing: the loop is exhausted, the list
\* is empty or its first element has been analysed, or datos is neither a
\* dict nor a list
FinLlamada ==
    /\ pila # <<>>
    /\ \/ Cima.pc = "bucle" /\ Cima.i > Tam(Cima.datos)
       \/ Cima.pc = "fin"
       \/ /\ Cima.pc = "inicio"
          /\ Cima.max_profundidad # 0
          /\ ~EsDict(Cima.datos)
          /\ EsLista(Cima.datos) => Tam(Cima.datos) = 0
    /\ Retorna
    /\ UNCHANGED <<datos, max_inicial, salida, visitas>>

Next ==
    \/ Limite /\ UNCHANGED <<varsXml, df_flat, ramas, varsArchivos>>
    \/ EntraDict /\ UNCHANGED <<varsXml, df_flat, ramas, varsArchivos>>
    \/ ValorContenedor /\ UNCHANGED <<varsXml, df_flat, ramas, varsArchivos>>
    \/ ValorSimple /\ UNCHANGED <<varsXml, df_flat, ramas, varsArchivos>>
    \/ ListaPrimero /\ UNCHANGED <<varsXml, df_flat, ramas, varsArchivos>>
    \/ FinLlamada /\ UNCHANGED <<varsXml, df_flat, ramas, varsArchivos>>

Spec == Init /\ [][Next]_vars

\* the interpreter runs the call to its end
SpecJusta == Spec /\ WF_vars(Next)

Terminado == pila = <<>>

-----------------------------------------------------------------------------
(* The same function on dicts whose keys are arbitrary strings.            *)

\* keys of the inputs: the empty key, plain keys, keys with '.' and '['
Llaves == {"", "a", "b", "a.b", "a[0]"}

\* a dict of two entries; the first value may be a dict or a list
ArbolesConLlaves ==
    {Dict(<<c[1], c[2]>>, <<v, w>>) :
        c \in {x \in Llaves \X Llaves : x[1] # x[2]},
        v \in {Hoja("int", "7"), Lista(<<Hoja("int", "7")>>)}
                \cup {Dict(<<k>>, <<Hoja("int", "7")>>) : k \in Llaves},
        w \in {Hoja("int", "7"), Dict(<<>>, <<>>)}}

InitLlaves ==
    /\ datos \in ArbolesConLlaves
    /\ max_inicial \in 1..MaxProf
    /\ pila = <<Llamada(datos, "", max_inicial, <<>>)>>
    /\ salida = <<>>
    /\ visitas = << <<>> >>
    /\ resultado = "en_curso"
    /\ element = Nada
    /\ result = Nada
    /\ profundidad = Nada
    /\ df_flat = Nada
    /\ ramas = Nada
    /\ archivos = Nada
    /\ locales = Nada
    /\ retorno = Nada

SpecLlaves == InitLlaves /\ [][Next]_vars

-----------------------------------------------------------------------------
(* The iterations of the loop of lines 62-71 run apart.  Call 1 is the     *)
(* whole call analizar_estructura_json(datos, prefijo, max_profundidad);   *)
(* call i + 1 is the same function on entry i of datos alone, with the     *)
(* same prefijo and max_profundidad, printing into a buffer of its own.    *)
(* One call at a time is loaded in pila, salida, visitas and resultado and *)
(* runs the actions above; the others wait in ramas.hilos.  The whole call  *)
(* is run first, to its end; then Cambia hands the interpreter from one    *)
(* entry's call to another at any point.                                   *)

\* a waiting call
Hilo(p, s, v, r) == [pila |-> p, salida |-> s, visitas |-> v, resultado |-> r]

\* the prefijo arguments of the whole call
Prefijos == {"", "raiz"}

\* the dict that holds entry i of d and nothing else
Entrada(d, i) == Dict(<<d.claves[i]>>, <<d.hijos[i]>>)

\* the calls, none started: the whole call, then one per entry
HilosIniciales(d, pre, mp) ==
    [j \in 1..(Tam(d) + 1) |->
        Hilo(<<Llamada(IF j = 1 THEN d ELSE Entrada(d, j - 1), pre, mp, <<>>)>>,
             <<>>, << <<>> >>, "en_curso")]

InitRamas ==
    /\ datos \in {v \in Arboles : EsDict(v)}
    /\ max_inicial \in Profundidades \ {0}
    /\ \E pre \in Prefijos :
          /\ pila = <<Llamada(datos, pre, max_inicial, <<>>)>>
          /\ ramas = [tipo |-> "ramas", activa |-> 1, intercalado |-> FALSE,
                      hilos |-> [HilosIniciales(datos, pre, max_inicial)
                                    EXCEPT ![1] = Nada]]
    /\ salida = <<>>
    /\ visitas = << <<>> >>
    /\ resultado = "en_curso"
    /\ element = Nada
    /\ result = Nada
    /\ profundidad = Nada
    /\ df_flat = Nada
    /\ archivos = Nada
    /\ locales = Nada
    /\ retorno = Nada

\* the loaded call is set aside (the whole call only once it has returned)
\* and call j, not yet finished, is loaded
Cambia ==
    /\ ramas # Nada
    /\ ramas.activa = 1 => pila = <<>>
    /\ \E j \in DOMAIN ramas.hilos :
          /\ j # ramas.activa
          /\ ramas.hilos[j].pila # <<>>
          /\ pila' = ramas.hilos[j].pila
          /\ salida' = ramas.hilos[j].salida
          /\ visitas' = ramas.hilos[j].visitas
          /\ resultado' = ramas.hilos[j].resultado
          /\ ramas' = [ramas EXCEPT
                 !.activa = j,
                 !.intercalado = @ \/ (pila # <<>> /\ salida # <<>>),
                 !.hilos[ramas.activa] = Hilo(pila, salida, visitas, resultado),
                 !.hilos[j] = Nada]
    /\ UNCHANGED <<datos, max_inicial, varsXml, df_flat, varsArchivos>>

NextRamas ==
    \/ Next
    \/ Cambia

SpecRamas == InitRamas /\ [][NextRamas]_vars

-----------------------------------------------------------------------------
(* XML elements (xml.etree.ElementTree.Element).  An element is a record   *)
(*   tag    : element.tag                                                  *)
(*   attrib : element.attrib, a set of <<name, value>> pairs               *)
(*   text   : element.text, <<>> for None and <<s>> for the str s          *)
(*   hijos  : the child elements, in document order                        *)
(* The attrib dict of the element at position p is the object p: a value   *)
(* that holds it holds Referencia(p), and its content is read from, and    *)
(* written to, the element.                                                *)

Elemento(t, a, x, hs) == [tag |-> t, attrib |-> a, text |-> x, hijos |-> hs]

Tags == {"a", "b"}

\* the attrib and text of the elements of the inputs
Formas ==
    { <<{}, <<>>>>,
      <<{<<"id", "1">>}, <<" ">>>>,
      <<{<<"id", "1">>}, <<" 20 ">>>> }

RECURSIVE ElementosDe(_, _), BosquesXml(_, _)

\* the elements with exactly n nodes whose tag is in ts
ElementosDe(n, ts) ==
    {Elemento(t, f[1], f[2], hs) :
        t \in ts, f \in Formas,
        hs \in UNION {BosquesXml(n - 1, k) : k \in 0..(n - 1)}}

\* the sequences of k elements with n nodes in all
BosquesXml(n, k) ==
    IF k = 0
    THEN IF n = 0 THEN {<<>>} ELSE {}
    ELSE UNION {{<<e>> \o f : e \in ElementosDe(m, Tags),
                              f \in BosquesXml(n - m, k - 1)}
                  : m \in 1..(n - k + 1)}

\* the input trees of up to n elements, the root tagged r
ElementosHasta(n) == UNION {ElementosDe(m, {"r"}) : m \in 1..n}

\* the str s, the dict object element.attrib of the element at p
Cadena(s) == [tipo |-> "str", valor |-> s]

Referencia(p) == [tipo |-> "dict", ref |-> p]

RECURSIVE Strip(_)

\* the whitespace characters of the inputs
Blancos == {" ", "\n", "\t"}

\* s.strip()
Strip(s) ==
    IF s = "" THEN ""
    ELSE IF SubSeq(s, 1, 1) \in Blancos THEN Strip(SubSeq(s, 2, Len(s)))
    ELSE IF SubSeq(s, Len(s), Len(s)) \in Blancos
         THEN Strip(SubSeq(s, 1, Len(s) - 1))
    ELSE s

\* clave in result
Tiene(d, clave) == \E i \in 1..Len(d.claves) : d.claves[i] = clave

\* result[clave]
Obtener(d, clave) ==
    d.hijos[CHOOSE i \in 1..Len(d.claves) : d.claves[i] = clave]

\* result[clave] = v
Poner(d, clave, v) ==
    IF Tiene(d, clave)
    THEN [d EXCEPT !.hijos[CHOOSE i \in 1..Len(d.claves) : d.claves[i] = clave] = v]
    ELSE [d EXCEPT !.claves = Append(@, clave), !.hijos = Append(@, v)]

\* ConTexto testing the text without strip()
ConTextoSinStrip(e) == e.text # <<>> /\ e.text[1] # ""

\* element.text and element.text.strip()
ConTexto(e) == e.text # <<>> /\ e.text[1] # "" /\ Strip(e.text[1]) # ""

\* SinHijos answering no for every element
SinHijosNunca(e) == FALSE

\* SinHijos answering yes for every element
SinHijosSiempre(e) == TRUE

\* len(element) == 0
SinHijos(e) == Len(e.hijos) = 0

\* Agrega pairing the entry with the new value at every repetition
AgregaAnidado(d, tag, child_data) ==
    IF Tiene(d, tag)
    THEN Poner(d, tag, Lista(<<Obtener(d, tag), child_data>>))
    ELSE Poner(d, tag, child_data)

\* Agrega turning the entry into a list only when it holds a str
AgregaSoloStr(d, tag, child_data) ==
    IF Tiene(d, tag)
    THEN IF EsLista(Obtener(d, tag))
         THEN Poner(d, tag, Lista(Append(Obtener(d, tag).hijos, child_data)))
         ELSE IF Obtener(d, tag).tipo = "str"
              THEN Poner(d, tag, Lista(<<Obtener(d, tag), child_data>>))
              ELSE Poner(d, tag, child_data)
    ELSE Poner(d, tag, child_data)

\* the body of the loop over the children: child.tag and child_data go
\* into result
Agrega(d, tag, child_data) ==
    IF Tiene(d, tag)
    THEN LET lista == IF ~EsLista(Obtener(d, tag))
                      THEN Lista(<<Obtener(d, tag)>>)
                      ELSE Obtener(d, tag)
         IN Poner(d, tag, Lista(Append(lista.hijos, child_data)))
    ELSE Poner(d, tag, child_data)

RECURSIVE XmlToDict(_, _), HijosADict(_, _, _, _)

\* xml_to_dict(e), e the element at position pos of the input
XmlToDict(e, pos) ==
    LET result0 == IF e.attrib # {}
                   THEN Poner(Dict(<<>>, <<>>), "@attributes", Referencia(pos))
                   ELSE Dict(<<>>, <<>>)
    IN IF ConTexto(e) /\ SinHijos(e)
       THEN Cadena(Strip(e.text[1]))
       ELSE HijosADict(e, pos, 1,
                       IF ConTexto(e)
                       THEN Poner(result0, "#text", Cadena(Strip(e.text[1])))
                       ELSE result0)

\* for child in element: ..., from child i on; return result
HijosADict(e, pos, i, d) ==
    IF i > Len(e.hijos) THEN d
    ELSE HijosADict(e, pos, i + 1,
                    Agrega(d, e.hijos[i].tag,
                           XmlToDict(e.hijos[i], Append(pos, i))))

\* the largest and the smallest element of a non-empty set of integers
Maximo(S) == CHOOSE m \in S : \A x \in S : x <= m

Minimo(S) == CHOOSE m \in S : \A x \in S : m <= x

RECURSIVE MaxDepth(_, _)

\* MaxDepth taking the shallowest child
MaxDepthMin(e, depth) ==
    IF Len(e.hijos) = 0 THEN depth
    ELSE Minimo({MaxDepth(e.hijos[i], depth + 1) : i \in 1..Len(e.hijos)})

\* max_depth(element, depth)
MaxDepth(e, depth) ==
    IF Len(e.hijos) = 0 THEN depth
    ELSE Maximo({MaxDepth(e.hijos[i], depth + 1) : i \in 1..Len(e.hijos)})

\* profundidad before max_depth has returned
SinMedir == 0 - 1

InitXml ==
    /\ element \in ElementosHasta(MaxElementos)
    /\ result = Nada
    /\ profundidad = SinMedir
    /\ datos = Nada
    /\ max_inicial = 0
    /\ pila = <<>>
    /\ salida = <<>>
    /\ visitas = <<>>
    /\ resultado = "retorno"
    /\ df_flat = Nada
    /\ ramas = Nada
    /\ archivos = Nada
    /\ locales = Nada
    /\ retorno = Nada

\* result = xml_to_dict(element)
Convierte ==
    /\ result = Nada
    /\ result' = XmlToDict(element, <<>>)
    /\ UNCHANGED <<varsJson, element, profundidad, df_flat, ramas, varsArchivos>>

\* profundidad = max_depth(root)
Mide ==
    /\ profundidad = SinMedir
    /\ profundidad' = MaxDepth(element, 0)
    /\ UNCHANGED <<varsJson, element, result, df_flat, ramas, varsArchivos>>

RECURSIVE Referencias(_)

\* the attrib objects that the value v holds
Referencias(v) ==
    IF "ref" \in DOMAIN v THEN {v.ref}
    ELSE IF "hijos" \in DOMAIN v
         THEN UNION {Referencias(v.hijos[i]) : i \in 1..Len(v.hijos)}
         ELSE {}

RECURSIVE ConAtributo(_, _, _)

\* the tree e after attrib[par[1]] = par[2] on the attrib object p
ConAtributo(e, p, par) ==
    IF p = <<>> THEN [e EXCEPT !.attrib = @ \cup {par}]
    ELSE [e EXCEPT !.hijos[Head(p)] = ConAtributo(@, Tail(p), par)]

\* the caller writes into a dict it finds in the result under '@attributes':
\* that dict is element.attrib itself, result['@attributes'] = element.attrib.
\* (Writing into the other dicts and lists of the result, which xml_to_dict
\* creates, changes the result alone.)
ModificaAtributos ==
    /\ result # Nada
    /\ \E p \in Referencias(result) :
           /\ <<"nuevo", "x">> \notin NodoEn(element, p).attrib
           /\ element' = ConAtributo(element, p, <<"nuevo", "x">>)
    /\ UNCHANGED <<varsJson, result, profundidad, df_flat, ramas, varsArchivos>>

NextXml ==
    \/ Convierte
    \/ Mide
    \/ ModificaAtributos

SpecXml == InitXml /\ [][NextXml]_vars

-----------------------------------------------------------------------------
(* json_nested_to_flat: df_flat = pd.json_normalize(datos['investigacion']). *)
(* The argument is a dict that json.load built; here datos stands for it.  *)
(* The DataFrame has one row; it is kept as the set of its columns, each a *)
(* record [columna, valor].  pandas walks the dicts only: a value that is  *)
(* not a dict (a list too) becomes the value of one column, whole.         *)
(* The lookups of lines 259-275 (datos_planos) read fixed keys of the      *)
(* sample file and assign nothing that line 288 reads.                     *)

DataFrame(cs) == [tipo |-> "DataFrame", columnas |-> cs]

RECURSIVE DeJson(_)

\* the values json.load can produce
DeJson(v) ==
    /\ v \notin Ajenos
    /\ \A i \in 1..Len(v.hijos) : DeJson(v.hijos[i])

Investigaciones == {v \in Arboles : EsDict(v) /\ DeJson(v)}

\* NuevaColumna keeping the separator in front of a top-level key
NuevaColumnaConSep(key_string, key) == key_string \o "." \o key

\* the column of the entry key of a dict whose own column is key_string
\* (sep = ".", and no separator in front of a top-level key)
NuevaColumna(key_string, key) ==
    IF key_string = "" THEN key ELSE key_string \o "." \o key

RECURSIVE Normalise(_, _)

\* the columns of data, a value whose own column is key_string
Normalise(data, key_string) ==
    IF EsDict(data)
    THEN UNION {Normalise(data.hijos[i],
                          NuevaColumna(key_string, data.claves[i]))
                  : i \in 1..Tam(data)}
    ELSE {[columna |-> key_string, valor |-> data]}

\* pd.json_normalize(data) for a dict data
JsonNormalize(data) == DataFrame(Normalise(data, ""))

InitPlano ==
    /\ datos \in Investigaciones
    /\ df_flat = Nada
    /\ max_inicial = 0
    /\ pila = <<>>
    /\ salida = <<>>
    /\ visitas = <<>>
    /\ resultado = "retorno"
    /\ element = Nada
    /\ result = Nada
    /\ profundidad = Nada
    /\ ramas = Nada
    /\ archivos = Nada
    /\ locales = Nada
    /\ retorno = Nada

\* df_flat = pd.json_normalize(datos['investigacion'])
Aplana ==
    /\ df_flat = Nada
    /\ df_flat' = JsonNormalize(datos)
    /\ UNCHANGED <<varsJson, varsXml, ramas, varsArchivos>>

NextPlano == Aplana

SpecPlano == InitPlano /\ [][NextPlano]_vars

-----------------------------------------------------------------------------
(* What a function hands back: a value it returns or an exception that     *)
(* leaves it.                                                              *)

Devuelve(v) == [tipo |-> "valor", valor |-> v]

Lanza(clase) == [tipo |-> "excepcion", clase |-> clase]

-----------------------------------------------------------------------------
(* validar_xml_schema(xml_file).  archivos is what the path xml_file names: *)
(* nothing, a directory, or a file whose text is or is not well-formed     *)
(* XML (xml is then the root element ET.parse builds, or Nada).            *)

Ausente == [tipo |-> "ausente"]

Directorio == [tipo |-> "directorio"]

ArchivoDeTexto(x) == [tipo |-> "texto", xml |-> x]

RECURSIVE Cuenta(_), CuentaDe(_)

\* len(list(root.iter())): the element and all its descendants
Cuenta(e) == 1 + CuentaDe(e.hijos)

CuentaDe(hs) == IF hs = <<>> THEN 0 ELSE Cuenta(Head(hs)) + CuentaDe(Tail(hs))

\* ET.parse(xml_file): the exception it raises, "" when it returns the tree
ErrorDeParse(a) ==
    IF a = Ausente THEN "FileNotFoundError"
    ELSE IF a = Directorio THEN "IsADirectoryError"
    ELSE IF a.xml = Nada THEN "ParseError"
    ELSE ""

InitValida ==
    /\ archivos \in {Ausente, Directorio, ArchivoDeTexto(Nada)}
                      \cup {ArchivoDeTexto(e) : e \in ElementosHasta(MaxElementos)}
    /\ retorno = Nada
    /\ salida = <<>>
    /\ locales = Nada
    /\ datos = Nada
    /\ max_inicial = 0
    /\ pila = <<>>
    /\ visitas = <<>>
    /\ resultado = "retorno"
    /\ element = Nada
    /\ result = Nada
    /\ profundidad = Nada
    /\ df_flat = Nada
    /\ ramas = Nada

\* try: tree = ET.parse(xml_file); ...; return True
ValidaBien ==
    /\ retorno = Nada
    /\ ErrorDeParse(archivos) = ""
    /\ LET root == archivos.xml
       IN /\ locales' = [elementos |-> Cuenta(root),
                         profundidad |-> MaxDepth(root, 0)]
          /\ salida' = <<[clase |-> "bien_formado"],
                         [clase |-> "elementos", n |-> Cuenta(root)],
                         [clase |-> "profundidad", n |-> MaxDepth(root, 0)],
                         [clase |-> "raiz", tag |-> root.tag]>>
    /\ retorno' = Devuelve(TRUE)
    /\ UNCHANGED <<datos, max_inicial, pila, visitas, resultado, varsXml,
                   df_flat, ramas, archivos>>

\* except ET.ParseError as e: print(...); return False
ValidaParseError ==
    /\ retorno = Nada
    /\ ErrorDeParse(archivos) = "ParseError"
    /\ salida' = <<[clase |-> "error_parse"]>>
    /\ retorno' = Devuelve(FALSE)
    /\ UNCHANGED <<datos, max_inicial, pila, visitas, resultado, varsXml,
                   df_flat, ramas, archivos, locales>>

\* an exception that is no ET.ParseError leaves the function
ValidaOtroError ==
    /\ retorno = Nada
    /\ ErrorDeParse(archivos) \notin {"", "ParseError"}
    /\ retorno' = Lanza(ErrorDeParse(archivos))
    /\ UNCHANGED <<datos, max_inicial, pila, salida, visitas, resultado,
                   varsXml, df_flat, ramas, archivos, locales>>

NextValida ==
    \/ ValidaBien
    \/ ValidaParseError
    \/ ValidaOtroError

SpecValida == InitValida /\ [][NextValida]_vars

-----------------------------------------------------------------------------
(* cargar_jsonl(archivo).  archivos is what the path names: nothing, or a  *)
(* text file, kept as the lines that iterating over it yields.  locales    *)
(* holds datos, the list being built, and i, the line the loop is at.      *)

ArchivoDeLineas(ls) == [tipo |-> "lineas", lineas |-> ls]

\* the lines of the input files
LineasPosibles == {"\n", "  \n", "{\"a\": 1}\n", " 7 \n", "{\"a\": \n"}

\* the files of n lines
ArchivosDeLineas(n) ==
    UNION {{ArchivoDeLineas(ls) : ls \in [1..k -> LineasPosibles]} : k \in 0..n}

\* json.loads(s): the value of the document s, Nada when s is no JSON
\* document (json.loads then raises JSONDecodeError); whitespace around
\* the document is allowed
JsonLoads(s) ==
    IF Strip(s) = "{\"a\": 1}" THEN Dict(<<"a">>, <<Hoja("int", "1")>>)
    ELSE IF Strip(s) = "7" THEN Hoja("int", "7")
    ELSE Nada

InitJsonl ==
    /\ archivos \in {Ausente} \cup ArchivosDeLineas(MaxLineas)
    /\ locales = [pc |-> "abrir", datos |-> <<>>, i |-> 1]
    /\ retorno = Nada
    /\ datos = Nada
    /\ max_inicial = 0
    /\ pila = <<>>
    /\ salida = <<>>
    /\ visitas = <<>>
    /\ resultado = "retorno"
    /\ element = Nada
    /\ result = Nada
    /\ profundidad = Nada
    /\ df_flat = Nada
    /\ ramas = Nada

\* datos = []; with open(archivo, 'r', encoding='utf-8') as f:
AbreJsonl ==
    /\ locales # Nada
    /\ locales.pc = "abrir"
    /\ IF archivos = Ausente
       THEN /\ retorno' = Lanza("FileNotFoundError")
            /\ locales' = [locales EXCEPT !.pc = "fin"]
       ELSE /\ retorno' = retorno
            /\ locales' = [locales EXCEPT !.pc = "bucle"]
    /\ UNCHANGED <<varsJson, varsXml, df_flat, ramas, archivos>>

\* LineaJsonl testing the line without strip()
LineaJsonlSinStrip ==
    /\ locales # Nada
    /\ locales.pc = "bucle"
    /\ locales.i <= Len(archivos.lineas)
    /\ LET linea == archivos.lineas[locales.i]
       IN IF linea = ""
          THEN /\ locales' = [locales EXCEPT !.i = @ + 1]
               /\ retorno' = retorno
          ELSE IF JsonLoads(linea) = Nada
          THEN /\ locales' = [locales EXCEPT !.pc = "fin"]
               /\ retorno' = Lanza("JSONDecodeError")
          ELSE /\ locales' = [locales EXCEPT !.i = @ + 1,
                                  !.datos = Append(@, JsonLoads(linea))]
               /\ retorno' = retorno
    /\ UNCHANGED <<varsJson, varsXml, df_flat, ramas, archivos>>

\* for linea in f: if linea.strip(): datos.append(json.loads(linea))
LineaJsonl ==
    /\ locales # Nada
    /\ locales.pc = "bucle"
    /\ locales.i <= Len(archivos.lineas)
    /\ LET linea == archivos.lineas[locales.i]
       IN IF Strip(linea) = ""
          THEN /\ locales' = [locales EXCEPT !.i = @ + 1]
               /\ retorno' = retorno
          ELSE IF JsonLoads(linea) = Nada
          THEN /\ locales' = [locales EXCEPT !.pc = "fin"]
               /\ retorno' = Lanza("JSONDecodeError")
          ELSE /\ locales' = [locales EXCEPT !.i = @ + 1,
                                  !.datos = Append(@, JsonLoads(linea))]
               /\ retorno' = retorno
    /\ UNCHANGED <<varsJson, varsXml, df_flat, ramas, archivos>>

\* return datos
RetornaJsonl ==
    /\ locales # Nada
    /\ locales.pc = "bucle"
    /\ locales.i > Len(archivos.lineas)
    /\ retorno' = Devuelve(locales.datos)
    /\ locales' = [locales EXCEPT !.pc = "fin"]
    /\ UNCHANGED <<varsJson, varsXml, df_flat, ramas, archivos>>

NextJsonl ==
    \/ AbreJsonl
    \/ LineaJsonl
    \/ RetornaJsonl

SpecJsonl == InitJsonl /\ [][NextJsonl]_vars

-----------------------------------------------------------------------------
(* ejemplo_compresion.py: the run of the script (crear_datos_ejemplo,      *)
(* ejemplo_tar, ejemplo_gzip, ejemplo_zip, the question, limpiar) and a    *)
(* call of limpiar on its own, over the paths they create and remove in    *)
(* the working directory.  archivos is that directory: what each path is   *)
(* and which files each archive holds.                                     *)

Directorios == <<"datos_ejemplo", "extracted_tar", "extracted_zip">>

Comprimidos ==
    <<"datos.tar", "datos.tar.gz", "datos.zip", "datos_ejemplo/logs.txt.gz">>

Archivadores == {"datos.tar", "datos.tar.gz", "datos.zip"}

Rutas ==
    {Directorios[i] : i \in 1..Len(Directorios)}
        \cup {Comprimidos[i] : i \in 1..Len(Comprimidos)}

Clases == {"ausente", "archivo", "directorio"}

\* the files crear_datos_ejemplo writes into datos_ejemplo
Creados ==
    {"dataset_0.csv", "dataset_1.csv", "dataset_2.csv", "dataset_3.csv",
     "dataset_4.csv", "config_0.json", "config_1.json", "config_2.json",
     "logs.txt"}

\* os.path.exists
Existe(fs, ruta) == fs.clase[ruta] # "ausente"

\* the files os.walk('datos_ejemplo') finds
Listado(fs) ==
    IF fs.clase["datos_ejemplo"] = "directorio"
    THEN Creados \cup (IF fs.clase["datos_ejemplo/logs.txt.gz"] = "archivo"
                       THEN {"logs.txt.gz"}
                       ELSE {})
    ELSE {}

\* os.path.getsize of a file of datos_ejemplo: none of them is empty
Peso(f) == IF f = "logs.txt.gz" THEN 1 ELSE 2

RECURSIVE Suma(_)
Suma(S) ==
    IF S = {} THEN 0
    ELSE LET f == CHOOSE x \in S : TRUE IN Peso(f) + Suma(S \ {f})

\* calcular_tamaño_directorio('datos_ejemplo')
CalcularTamanoDirectorio(fs) == Suma(Listado(fs))

\* tarfile.open(a, 'w') / zipfile.ZipFile(a, 'w') filled from datos_ejemplo
Archiva(fs, a) ==
    [fs EXCEPT !.clase[a] = "archivo", !.miembros[a] = Listado(fs)]

\* Path(d).mkdir(exist_ok=True), or the directory an extraction creates
Mkdir(fs, d) == [fs EXCEPT !.clase[d] = "directorio"]

\* shutil.rmtree(d): the directory goes with everything in it
QuitaArbol(fs, d) ==
    [fs EXCEPT !.clase =
        [r \in Rutas |->
            IF r = d \/ (d = "datos_ejemplo" /\ r = "datos_ejemplo/logs.txt.gz")
            THEN "ausente"
            ELSE fs.clase[r]]]

\* os.remove that removes nothing
NoQuita(fs, f) == fs

\* os.remove(f)
QuitaArchivo(fs, f) ==
    [fs EXCEPT !.clase[f] = "ausente",
               !.miembros = [a \in Archivadores |->
                                IF a = f THEN {} ELSE fs.miembros[a]]]

\* a working directory: every archive that is a file holds the files of
\* datos_ejemplo with or without logs.txt.gz
DirectoriosDeTrabajo(clases) ==
    {fs \in [clase : [Rutas -> clases],
             miembros : [Archivadores -> {{}, Creados,
                                          Creados \cup {"logs.txt.gz"}}]] :
        /\ Existe(fs, "datos_ejemplo/logs.txt.gz")
               => fs.clase["datos_ejemplo"] = "directorio"
        /\ \A a \in Archivadores :
               fs.miembros[a] = {} <=> fs.clase[a] # "archivo"}

\* every path is what the script makes of it: left by an earlier run
DeLaCorrida(fs) ==
    /\ \A i \in 1..Len(Directorios) : fs.clase[Directorios[i]] # "archivo"
    /\ \A i \in 1..Len(Comprimidos) : fs.clase[Comprimidos[i]] # "directorio"

SinMedida == 0

\* the script is started, or limpiar is called, in a working directory
InitCompresion ==
    /\ \/ /\ archivos \in {fs \in DirectoriosDeTrabajo(Clases) : DeLaCorrida(fs)}
          /\ locales = [pc |-> "crear_datos", i |-> 1,
                        al_empezar |-> archivos, al_limpiar |-> Nada,
                        original_tar |-> SinMedida,
                        original_targz |-> SinMedida,
                        original_zip |-> SinMedida]
       \/ /\ archivos \in DirectoriosDeTrabajo(Clases)
          /\ locales = [pc |-> "limpiar_dirs", i |-> 1,
                        al_empezar |-> Nada, al_limpiar |-> archivos,
                        original_tar |-> SinMedida,
                        original_targz |-> SinMedida,
                        original_zip |-> SinMedida]
    /\ retorno = Nada
    /\ datos = Nada
    /\ max_inicial = 0
    /\ pila = <<>>
    /\ salida = <<>>
    /\ visitas = <<>>
    /\ resultado = "retorno"
    /\ element = Nada
    /\ result = Nada
    /\ profundidad = Nada
    /\ df_flat = Nada
    /\ ramas = Nada

\* crear_datos_ejemplo
CrearDatosEjemplo ==
    /\ locales # Nada
    /\ locales.pc = "crear_datos"
    /\ archivos' = Mkdir(archivos, "datos_ejemplo")
    /\ locales' = [locales EXCEPT !.pc = "tar"]
    /\ UNCHANGED <<varsJson, varsXml, df_flat, ramas, retorno>>

\* ejemplo_tar: datos.tar, the size of datos_ejemplo, the extraction
EjemploTar ==
    /\ locales # Nada
    /\ locales.pc = "tar"
    /\ LET fs == Archiva(archivos, "datos.tar")
       IN /\ archivos' = Mkdir(fs, "extracted_tar")
          /\ locales' = [locales EXCEPT
                            !.pc = "gzip_1",
                            !.original_tar = CalcularTamanoDirectorio(fs)]
    /\ UNCHANGED <<varsJson, varsXml, df_flat, ramas, retorno>>

\* ejemplo_gzip, step 1 that writes nothing
GzipIndividualSinEscribir ==
    /\ locales # Nada
    /\ locales.pc = "gzip_1"
    /\ locales' = [locales EXCEPT !.pc = "gzip_2"]
    /\ UNCHANGED <<varsJson, varsXml, df_flat, ramas, retorno, archivos>>

\* ejemplo_gzip, step 1: logs.txt compressed into logs.txt.gz
GzipIndividual ==
    /\ locales # Nada
    /\ locales.pc = "gzip_1"
    /\ archivos' = [archivos EXCEPT
                       !.clase["datos_ejemplo/logs.txt.gz"] = "archivo"]
    /\ locales' = [locales EXCEPT !.pc = "gzip_2"]
    /\ UNCHANGED <<varsJson, varsXml, df_flat, ramas, retorno>>

\* ejemplo_gzip, step 2: datos.tar.gz and the size of datos_ejemplo
GzipTar ==
    /\ locales # Nada
    /\ locales.pc = "gzip_2"
    /\ archivos' = Archiva(archivos, "datos.tar.gz")
    /\ locales' = [locales EXCEPT
                      !.pc = "zip",
                      !.original_targz = CalcularTamanoDirectorio(archivos')]
    /\ UNCHANGED <<varsJson, varsXml, df_flat, ramas, retorno>>

\* ejemplo_zip: datos.zip, the size of datos_ejemplo, one file extracted
EjemploZip ==
    /\ locales # Nada
    /\ locales.pc = "zip"
    /\ LET fs == Archiva(archivos, "datos.zip")
       IN /\ archivos' = Mkdir(fs, "extracted_zip")
          /\ locales' = [locales EXCEPT
                            !.pc = "pregunta",
                            !.original_zip = CalcularTamanoDirectorio(fs)]
    /\ UNCHANGED <<varsJson, varsXml, df_flat, ramas, retorno>>

\* respuesta = input(...); if respuesta.lower() == 's': limpiar()
Pregunta ==
    /\ locales # Nada
    /\ locales.pc = "pregunta"
    /\ \E respuesta \in {"s", "S", "n", ""} :
          IF respuesta \in {"s", "S"}
          THEN /\ locales' = [locales EXCEPT !.pc = "limpiar_dirs", !.i = 1,
                                             !.al_limpiar = archivos]
               /\ UNCHANGED retorno
          ELSE /\ locales' = [locales EXCEPT !.pc = "fin"]
               /\ retorno' = Devuelve("sin limpiar")
    /\ UNCHANGED <<varsJson, varsXml, df_flat, ramas, archivos>>

\* limpiar, one round of the loop over the directories
LimpiaDirectorio ==
    /\ locales # Nada
    /\ locales.pc = "limpiar_dirs"
    /\ locales.i <= Len(Directorios)
    /\ LET d == Directorios[locales.i]
       IN IF Existe(archivos, d) /\ archivos.clase[d] # "directorio"
          THEN /\ retorno' = Lanza("NotADirectoryError")
               /\ locales' = [locales EXCEPT !.pc = "fin"]
               /\ UNCHANGED archivos
          ELSE /\ archivos' = IF Existe(archivos, d)
                              THEN QuitaArbol(archivos, d)
                              ELSE archivos
               /\ locales' = [locales EXCEPT !.i = locales.i + 1]
               /\ UNCHANGED retorno
    /\ UNCHANGED <<varsJson, varsXml, df_flat, ramas>>

\* limpiar, from the first loop to the second
SigueConArchivos ==
    /\ locales # Nada
    /\ locales.pc = "limpiar_dirs"
    /\ locales.i > Len(Directorios)
    /\ locales' = [locales EXCEPT !.pc = "limpiar_archivos", !.i = 1]
    /\ UNCHANGED <<varsJson, varsXml, df_flat, ramas, archivos, retorno>>

\* limpiar, one round of the loop over the files
LimpiaArchivo ==
    /\ locales # Nada
    /\ locales.pc = "limpiar_archivos"
    /\ locales.i <= Len(Comprimidos)
    /\ LET f == Comprimidos[locales.i]
       IN IF Existe(archivos, f) /\ archivos.clase[f] # "archivo"
          THEN /\ retorno' = Lanza("IsADirectoryError")
               /\ locales' = [locales EXCEPT !.pc = "fin"]
               /\ UNCHANGED archivos
          ELSE /\ archivos' = IF Existe(archivos, f)
                              THEN QuitaArchivo(archivos, f)
                              ELSE archivos
               /\ locales' = [locales EXCEPT !.i = locales.i + 1]
               /\ UNCHANGED retorno
    /\ UNCHANGED <<varsJson, varsXml, df_flat, ramas>>

\* limpiar returns
RetornaLimpiar ==
    /\ locales # Nada
    /\ locales.pc = "limpiar_archivos"
    /\ locales.i > Len(Comprimidos)
    /\ retorno' = Devuelve("None")
    /\ locales' = [locales EXCEPT !.pc = "fin"]
    /\ UNCHANGED <<varsJson, varsXml, df_flat, ramas, archivos>>

NextCompresion ==
    \/ CrearDatosEjemplo
    \/ EjemploTar
    \/ GzipIndividual
    \/ GzipTar
    \/ EjemploZip
    \/ Pregunta
    \/ LimpiaDirectorio
    \/ SigueConArchivos
    \/ LimpiaArchivo
    \/ RetornaLimpiar

SpecCompresion == InitCompresion /\ [][NextCompresion]_vars

-----------------------------------------------------------------------------
(* procesar_csv.py, __main__: the loop that calls analizar_csv_estructura  *)
(* for each file of the list inside try/except Exception.  What a call     *)
(* does depends on the file it finds: it returns or it raises.             *)

ArchivosCsv ==
    <<"empleados_simple.csv", "sensores_iot.csv", "transacciones_pipe.csv",
      "pacientes_comillas.csv", "experimentos_tabs.csv">>

\* what a call of analizar_csv_estructura can end with: its return, or the
\* class of the exception that leaves it
Desenlaces ==
    {"return", "FileNotFoundError", "ParserError", "UnicodeDecodeError",
     "KeyboardInterrupt"}

\* except that catches nothing
CapturadaNunca(clase) == FALSE

\* except Exception: KeyboardInterrupt derives from BaseException only
Capturada(clase) ==
    clase \in {"FileNotFoundError", "ParserError", "UnicodeDecodeError"}

\* print(f"❌ Error procesando {archivo}: {e}")
LineaError(archivo, e) == [archivo |-> archivo, error |-> e]

InitCsv ==
    /\ archivos = ArchivosCsv
    /\ locales = [pc |-> "bucle", i |-> 1, intentos |-> <<>>,
                  desenlaces |-> <<>>]
    /\ retorno = Nada
    /\ salida = <<>>
    /\ datos = Nada
    /\ max_inicial = 0
    /\ pila = <<>>
    /\ visitas = <<>>
    /\ resultado = "retorno"
    /\ element = Nada
    /\ result = Nada
    /\ profundidad = Nada
    /\ df_flat = Nada
    /\ ramas = Nada

\* one round of the loop: the call, and the handler when it raises
AnalizaArchivo ==
    /\ locales # Nada
    /\ locales.pc = "bucle"
    /\ locales.i <= Len(archivos)
    /\ \E d \in Desenlaces :
          LET archivo == archivos[locales.i]
              hecho == [locales EXCEPT
                           !.intentos = Append(locales.intentos, archivo),
                           !.desenlaces = Append(locales.desenlaces, d)]
          IN IF d = "return"
             THEN /\ locales' = [hecho EXCEPT !.i = locales.i + 1]
                  /\ UNCHANGED <<salida, retorno>>
             ELSE IF Capturada(d)
             THEN /\ locales' = [hecho EXCEPT !.i = locales.i + 1]
                  /\ salida' = Append(salida, LineaError(archivo, d))
                  /\ UNCHANGED retorno
             ELSE /\ locales' = [hecho EXCEPT !.pc = "fin"]
                  /\ retorno' = Lanza(d)
                  /\ UNCHANGED salida
    /\ UNCHANGED <<datos, max_inicial, pila, visitas, resultado, varsXml,
                   df_flat, ramas, archivos>>

\* the loop is over: problemas_comunes_csv()
ProblemasComunesCsv ==
    /\ locales # Nada
    /\ locales.pc = "bucle"
    /\ locales.i > Len(archivos)
    /\ locales' = [locales EXCEPT !.pc = "fin"]
    /\ retorno' = Devuelve("None")
    /\ UNCHANGED <<varsJson, varsXml, df_flat, ramas, archivos>>

NextCsv ==
    \/ AnalizaArchivo
    \/ ProblemasComunesCsv

SpecCsv == InitCsv /\ [][NextCsv]_vars

-----------------------------------------------------------------------------
(* procesar_json.py, analizar_grafo_json from line 179: the loop that      *)
(* fills colaboraciones from the edges of the graph, and the top list.     *)
(* datos is the graph; colaboraciones, a dict, is the sequence of its      *)
(* entries in insertion order.                                             *)

Investigadores == {"inv1", "inv2", "inv3", "inv4"}

\* n['propiedades']['nombre'] of the nodes of grafo['nodos']; inv4 is an
\* id that no node of the list has
Nombres == [id \in {"inv1", "inv2", "inv3"} |->
               IF id = "inv1" THEN "Ana" ELSE IF id = "inv2" THEN "Luis"
               ELSE "Eva"]

Arista(tipo, fuente, destino, propiedades) ==
    [tipo |-> tipo, fuente |-> fuente, destino |-> destino,
     propiedades |-> propiedades]

\* edges of grafo['aristas']: collaborations between any two researchers,
\* two collaborations without 'fuerza_colaboracion', edges of another type
AristasPosibles ==
    {Arista("COLABORA_CON", f, d, {"fuerza_colaboracion"}) :
        f \in Investigadores, d \in Investigadores}
    \cup {Arista("COLABORA_CON", "inv1", "inv2", {}),
          Arista("COLABORA_CON", "inv3", "inv3", {})}
    \cup {Arista("PUBLICA_EN", par[1], par[2], {}) :
            par \in {<<"inv1", "inv2">>, <<"inv4", "inv4">>,
                     <<"inv3", "inv1">>, <<"inv2", "inv4">>}}

Grafos(n) ==
    {[aristas |-> a] : a \in UNION {[1..k -> AristasPosibles] : k \in 0..n}}

\* colaboraciones[id].append(par) that forgets the entry
AcreditaSinGuardar(colaboraciones, id, par) == colaboraciones

\* colaboraciones[id].append(par), colaboraciones a defaultdict(list)
Acredita(colaboraciones, id, par) ==
    IF \E k \in 1..Len(colaboraciones) : colaboraciones[k].id = id
    THEN [k \in 1..Len(colaboraciones) |->
             IF colaboraciones[k].id = id
             THEN [colaboraciones[k] EXCEPT !.lista = Append(@, par)]
             ELSE colaboraciones[k]]
    ELSE Append(colaboraciones, [id |-> id, lista |-> <<par>>])

\* one item put into a list sorted by len(x[1]), largest first; the sort is
\* stable, so the item goes after the items with as many entries
Inserta(s, x) ==
    LET j == Cardinality({k \in 1..Len(s) : Len(s[k].lista) >= Len(x.lista)})
    IN SubSeq(s, 1, j) \o <<x>> \o SubSeq(s, j + 1, Len(s))

\* sorted(colaboraciones.items(), key=lambda x: len(x[1]), reverse=True)
RECURSIVE Sorted(_)
Sorted(items) ==
    IF items = <<>> THEN <<>>
    ELSE Inserta(Sorted(SubSeq(items, 1, Len(items) - 1)), items[Len(items)])

\* next((n['propiedades']['nombre'] for n in grafo['nodos']
\*       if n['id'] == inv_id), inv_id)
Nombre(inv_id) == IF inv_id \in DOMAIN Nombres THEN Nombres[inv_id] ELSE inv_id

\* print(f"   • {nombre}: {len(colabs)} colaboraciones")
LineaTop(item) == [nombre |-> Nombre(item.id), colaboraciones |-> Len(item.lista)]

InitGrafo ==
    /\ datos \in Grafos(MaxAristas)
    /\ locales = [pc |-> "aristas", i |-> 1, colaboraciones |-> <<>>,
                  top_colaboradores |-> <<>>]
    /\ retorno = Nada
    /\ salida = <<>>
    /\ archivos = Nada
    /\ max_inicial = 0
    /\ pila = <<>>
    /\ visitas = <<>>
    /\ resultado = "retorno"
    /\ element = Nada
    /\ result = Nada
    /\ profundidad = Nada
    /\ df_flat = Nada
    /\ ramas = Nada

\* one round of the loop of lines 180-186
AristaGrafo ==
    /\ locales # Nada
    /\ locales.pc = "aristas"
    /\ locales.i <= Len(datos.aristas)
    /\ LET arista == datos.aristas[locales.i]
       IN IF arista.tipo # "COLABORA_CON"
          THEN /\ locales' = [locales EXCEPT !.i = locales.i + 1]
               /\ UNCHANGED retorno
          ELSE IF "fuerza_colaboracion" \notin arista.propiedades
          THEN /\ locales' = [locales EXCEPT !.pc = "fin"]
               /\ retorno' = Lanza("KeyError")
          ELSE /\ locales' =
                    [locales EXCEPT
                        !.i = locales.i + 1,
                        !.colaboraciones =
                            Acredita(Acredita(locales.colaboraciones,
                                              arista.fuente,
                                              <<arista.destino, "fuerza">>),
                                     arista.destino,
                                     <<arista.fuente, "fuerza">>)]
               /\ UNCHANGED retorno
    /\ UNCHANGED <<varsJson, varsXml, df_flat, ramas, archivos>>

\* lines 188-202: the list sorted, cut and printed
TopColaboradores ==
    /\ locales # Nada
    /\ locales.pc = "aristas"
    /\ locales.i > Len(datos.aristas)
    /\ LET sorted == Sorted(locales.colaboraciones)
           top == SubSeq(sorted, 1, Min(TopN, Len(sorted)))
       IN /\ locales' = [locales EXCEPT !.pc = "fin",
                                        !.top_colaboradores = top]
          /\ salida' = [k \in 1..Len(top) |-> LineaTop(top[k])]
    /\ retorno' = Devuelve("None")
    /\ UNCHANGED <<datos, max_inicial, pila, visitas, resultado, varsXml,
                   df_flat, ramas, archivos>>

NextGrafo ==
    \/ AristaGrafo
    \/ TopColaboradores

SpecGrafo == InitGrafo /\ [][NextGrafo]_vars

-----------------------------------------------------------------------------
(* ejemplo_contenedores.py, comparar_tamaños_compresion: the loop over the *)
(* five image files.  archivos says, for each path of the list, whether    *)
(* it is absent, an image or a file that is not an image.                  *)

ArchivosImagen ==
    <<"imagenes_ejemplo/degradado_q95.jpg",
      "imagenes_ejemplo/degradado_q50.jpg",
      "imagenes_ejemplo/degradado_q10.jpg",
      "imagenes_ejemplo/circulo_transparente.png",
      "imagenes_ejemplo/paleta.gif">>

Str(s) == [clase |-> "str", v |-> s]

Int_(n) == [clase |-> "int", v |-> n]

\* Image.open(archivo): format and mode are str, width and height are int
ImageOpen(archivo) ==
    [format |-> Str("img"), width |-> Int_(Len(archivo)),
     height |-> Int_(Len(archivo)), mode |-> Str("RGB")]

\* a format specification ending in 's' applied to a value: only a str
\* takes it ("Unknown format code 's' for object of type 'int'")
FormatoS(valor) == IF valor.clase = "str" THEN valor ELSE Nada

\* a format specification ending in 'd', or none, applied to an int
FormatoD(valor) ==
    IF valor.clase = "int" THEN Str(ToString(valor.v)) ELSE Nada

\* the f-string of lines 205-206: the fields it formats, Nada for a field
\* whose formatting raises ValueError
Fila(archivo, img) ==
    <<FormatoS(Str(archivo)), FormatoS(img.format), FormatoD(img.width),
      FormatoS(img.height), FormatoS(img.mode)>>

InitImagenes ==
    /\ archivos \in [{ArchivosImagen[k] : k \in 1..Len(ArchivosImagen)} ->
                        {"ausente", "imagen", "otro"}]
    /\ locales = [pc |-> "bucle", i |-> 1]
    /\ retorno = Nada
    /\ salida = <<>>
    /\ datos = Nada
    /\ max_inicial = 0
    /\ pila = <<>>
    /\ visitas = <<>>
    /\ resultado = "retorno"
    /\ element = Nada
    /\ result = Nada
    /\ profundidad = Nada
    /\ df_flat = Nada
    /\ ramas = Nada

\* one round of the loop of lines 201-206
FilaImagen ==
    /\ locales # Nada
    /\ locales.pc = "bucle"
    /\ locales.i <= Len(ArchivosImagen)
    /\ LET archivo == ArchivosImagen[locales.i]
           fila == Fila(archivo, ImageOpen(archivo))
       IN IF archivos[archivo] = "ausente"
          THEN /\ locales' = [locales EXCEPT !.i = locales.i + 1]
               /\ UNCHANGED <<salida, retorno>>
          ELSE IF archivos[archivo] = "otro"
          THEN /\ locales' = [locales EXCEPT !.pc = "fin"]
               /\ retorno' = Lanza("UnidentifiedImageError")
               /\ UNCHANGED salida
          ELSE IF \E k \in 1..Len(fila) : fila[k] = Nada
          THEN /\ locales' = [locales EXCEPT !.pc = "fin"]
               /\ retorno' = Lanza("ValueError")
               /\ UNCHANGED salida
          ELSE /\ locales' = [locales EXCEPT !.i = locales.i + 1]
               /\ salida' = Append(salida, fila)
               /\ UNCHANGED retorno
    /\ UNCHANGED <<datos, max_inicial, pila, visitas, resultado, varsXml,
                   df_flat, ramas, archivos>>

\* lines 208-213: the closing remarks, and the return
Observaciones ==
    /\ locales # Nada
    /\ locales.pc = "bucle"
    /\ locales.i > Len(ArchivosImagen)
    /\ locales' = [locales EXCEPT !.pc = "fin"]
    /\ retorno' = Devuelve("None")
    /\ UNCHANGED <<varsJson, varsXml, df_flat, ramas, archivos>>

NextImagenes ==
    \/ FilaImagen
    \/ Observaciones

SpecImagenes == InitImagenes /\ [][NextImagenes]_vars

-----------------------------------------------------------------------------
(* Vocabulary of the properties.                                           *)

\* p is q or an ancestor of q
EsPrefijo(p, q) == Len(p) <= Len(q) /\ SubSeq(q, 1, Len(p)) = p

\* p comes before q in depth-first pre-order
Antes(p, q) ==
    /\ p # q
    /\ \/ EsPrefijo(p, q)
       \/ \E k \in 1..Min(Len(p), Len(q)) :
              /\ SubSeq(p, 1, k - 1) = SubSeq(q, 1, k - 1)
              /\ p[k] < q[k]

RECURSIVE Profundidad(_)

\* parent-child edges on the longest path from the root of v to a leaf
Profundidad(v) ==
    IF v.hijos = <<>> THEN 0
    ELSE 1 + CHOOSE m \in 0..MaxNodos :
                 /\ \E i \in 1..Len(v.hijos) : Profundidad(v.hijos[i]) = m
                 /\ \A i \in 1..Len(v.hijos) : Profundidad(v.hijos[i]) <= m

\* v is a scalar of the data model
EsEscalar(v) == v.tipo \in TiposEscalares

\* v is none of scalar, mapping, sequence
EsAjeno(v) == ~EsEscalar(v) /\ ~EsContenedor(v)

\* every node of v is a scalar, a mapping or a sequence
Conforme(v) == \A p \in Posiciones(v) : ~EsAjeno(NodoEn(v, p))

\* no ancestor-or-self of p is an element of a list other than its first
PorPrimero(p) ==
    \A k \in 1..Len(p) :
        EsLista(NodoEn(datos, SubSeq(p, 1, k - 1))) => p[k] = 1

\* how many times the node at p has been reached
Veces(p) == Cardinality({i \in DOMAIN visitas : visitas[i] = p})

\* the 'max depth reached' lines
Limites == {i \in DOMAIN salida : salida[i].clase = "limite"}

\* the lines that report one node: its path and its type
Cabeceras ==
    {i \in DOMAIN salida : salida[i].clase \in {"contenedor", "valor", "primero"}}

\* the lines about the node at p (the summary line of a list is about the
\* elements it leaves out, not about a node)
LineasDe(p) ==
    {i \in DOMAIN salida : salida[i].clase # "resto" /\ salida[i].nodo = p}

\* the lines about the nodes of the subtree at p
LineasBajo(p) ==
    {i \in DOMAIN salida :
        salida[i].clase # "resto" /\ EsPrefijo(p, salida[i].nodo)}

-----------------------------------------------------------------------------
(* C1.  As stated: for every tree T and every maxDepth >= depth(T), the    *)
(* finished report has reached every node of T exactly once and holds no   *)
(* 'max depth reached' line.                                               *)
C1_Original ==
    (Terminado /\ Conforme(datos) /\ max_inicial >= Profundidad(datos))
        => /\ \A p \in Posiciones(datos) : Veces(p) = 1
           /\ Limites = {}

(* C1, amended.  For every tree T and every maxDepth > depth(T), the       *)
(* finished report holds no 'max depth reached' line and has reached       *)
(* exactly once every node of T that lies under no list element other than *)
(* a first one; the other nodes are not reached at all.                    *)
C1_SinLimite ==
    (Terminado /\ max_inicial > Profundidad(datos))
        => /\ \A p \in Posiciones(datos) :
                  Veces(p) = IF PorPrimero(p) THEN 1 ELSE 0
           /\ Limites = {}

\* a finished report of a tree three levels deep that holds a list
C1_Testigo ==
    /\ Terminado
    /\ max_inicial > Profundidad(datos)
    /\ Profundidad(datos) = 3
    /\ \E p \in Posiciones(datos) : EsLista(NodoEn(datos, p))

(* C2.  For a root that is a dict or a list and maxDepth = 0 the report is *)
(* exactly one line, and it is the 'max depth reached' line.               *)
C2_SoloLimite ==
    (max_inicial = 0 /\ EsContenedor(datos))
        => /\ Len(salida) <= 1
           /\ \A i \in DOMAIN salida : salida[i].clase = "limite"
           /\ Terminado => Len(salida) = 1

\* the call on a dict with entries has returned at depth 0
C2_Testigo ==
    /\ Terminado
    /\ max_inicial = 0
    /\ EsDict(datos)
    /\ Tam(datos) > 1

-----------------------------------------------------------------------------
(* C4.  As stated: a call with maxDepth < 0 fails with                     *)
(* InvalidArgumentError before any node is reached and before any line is  *)
(* printed.                                                                *)
C4_Original ==
    max_inicial < 0
        => /\ salida = <<>>
           /\ visitas = << <<>> >>
           /\ resultado # "retorno"
           /\ Terminado => resultado = "InvalidArgumentError"

(* C5.  As stated: the call fails with InvalidNodeError as soon as it      *)
(* meets a value that is neither scalar, mapping nor sequence; no line     *)
(* reports such a value and the call never returns normally after meeting  *)
(* one.                                                                    *)
C5_Original ==
    /\ \A i \in DOMAIN salida :
           salida[i].clase # "resto" => ~EsAjeno(NodoEn(datos, salida[i].nodo))
    /\ (Terminado /\ \E k \in DOMAIN visitas : EsAjeno(NodoEn(datos, visitas[k])))
           => resultado = "InvalidNodeError"

(* C6.  The call terminates for every tree and every integer maxDepth, and *)
(* every call it makes is on a child of the caller's node with the         *)
(* remaining depth decreased by exactly 1.                                 *)
C6_Termina ==
    /\ <>Terminado
    /\ [][/\ Len(pila') <= Len(pila) + 1
          /\ Len(pila') = Len(pila) + 1 =>
                 LET nueva == pila'[Len(pila')]
                 IN /\ \E i \in 1..Tam(Cima.datos) :
                           /\ nueva.pos = Append(Cima.pos, i)
                           /\ nueva.datos = Cima.datos.hijos[i]
                    /\ nueva.datos = NodoEn(datos, nueva.pos)
                    /\ nueva.max_profundidad = Cima.max_profundidad - 1
                    /\ SubSeq(pila', 1, Len(pila) - 1) = Resto]_vars

\* a call with negative maxDepth has returned after going three levels down
C6_Testigo ==
    /\ Terminado
    /\ max_inicial < 0
    /\ \E k \in DOMAIN visitas : Len(visitas[k]) = 3

(* C7.  The lines that report a node appear in depth-first pre-order (a    *)
(* node before its descendants, the entries of a dict in insertion order,  *)
(* a whole subtree before the next sibling); of a list only the first      *)
(* element is reported and descended, and a list of n > 1 elements has     *)
(* exactly one summary line, next to the line of its first element, giving *)
(* the count n - 1.                                                        *)
C7_Preorden ==
    /\ \A i, j \in DOMAIN salida :
           (i < j /\ salida[i].clase # "resto" /\ salida[j].clase # "resto")
               => IF j \in Limites
                  THEN EsPrefijo(salida[i].nodo, salida[j].nodo)
                       \/ Antes(salida[i].nodo, salida[j].nodo)
                  ELSE Antes(salida[i].nodo, salida[j].nodo)
    /\ \A i \in DOMAIN salida :
           salida[i].clase # "resto" => PorPrimero(salida[i].nodo)
    /\ \A i \in DOMAIN salida :
           salida[i].clase = "primero" =>
               LET p == SubSeq(salida[i].nodo, 1, Len(salida[i].nodo) - 1)
                   n == Tam(NodoEn(datos, p))
               IN /\ EsLista(NodoEn(datos, p))
                  /\ salida[i].nodo = Append(p, 1)
                  /\ n > 1 => /\ i + 1 \in DOMAIN salida
                              /\ salida[i + 1].clase = "resto"
                              /\ salida[i + 1].nodo = p
    /\ \A j \in DOMAIN salida :
           salida[j].clase = "resto" =>
               LET p == salida[j].nodo
                   n == Tam(NodoEn(datos, p))
               IN /\ EsLista(NodoEn(datos, p))
                  /\ n > 1
                  /\ salida[j].mas = n - 1
                  /\ j - 1 \in DOMAIN salida
                  /\ salida[j - 1].clase = "primero"
                  /\ salida[j - 1].nodo = Append(p, 1)
                  /\ \A k \in DOMAIN salida :
                         (salida[k].clase = "resto" /\ salida[k].nodo = p)
                             => k = j
    /\ \A i \in Cabeceras :
           LET p == SubSeq(salida[i].nodo, 1, Len(salida[i].nodo) - 1)
               k == salida[i].nodo[Len(salida[i].nodo)]
           IN (EsDict(NodoEn(datos, p)) /\ k > 1)
                  => \E h \in Cabeceras : h < i /\ salida[h].nodo = Append(p, k - 1)

\* a finished report of a list of several elements whose first element is a
\* dict with an entry, which was descended
C7_Testigo ==
    /\ Terminado
    /\ EsLista(datos)
    /\ Tam(datos) > 1
    /\ EsDict(datos.hijos[1])
    /\ \E i \in Cabeceras : salida[i].nodo = <<1, 1>>

(* C8.  As stated: every line printed for a scalar node carries a preview  *)
(* of its value of at most 50 characters, for a scalar that is a dict      *)
(* value and for a scalar that is a list element.                          *)
C8_Original ==
    \A i \in DOMAIN salida :
        (salida[i].clase \in {"valor", "primero"}
            /\ EsEscalar(NodoEn(datos, salida[i].nodo)))
            => /\ "vista" \in DOMAIN salida[i]
               /\ Len(salida[i].vista) <= LargoVista

(* C9.  As stated: the finished report holds exactly one line for every    *)
(* node reached below the root, and every line printed for a dict or list  *)
(* node carries the number of its children, for a container that is a dict *)
(* value and for a container that is a list element.                       *)
C9_Original ==
    /\ Terminado =>
           \A k \in DOMAIN visitas :
               visitas[k] # <<>> => Cardinality(LineasDe(visitas[k])) = 1
    /\ \A i \in Cabeceras :
           EsContenedor(NodoEn(datos, salida[i].nodo))
               => /\ "tam" \in DOMAIN salida[i]
                  /\ salida[i].tam = Tam(NodoEn(datos, salida[i].nodo))

(* C10.  No step of the call changes the input: the tree is, node for      *)
(* node, the tree the call was given, and every call works on the subtree  *)
(* of it found at the call's position.                                     *)
C10_SoloLectura ==
    [][/\ datos' = datos
       /\ \A k \in DOMAIN pila' : pila'[k].datos = NodoEn(datos, pila'[k].pos)]_vars

\* the call has returned after printing lines about a list and about a dict
C10_Testigo ==
    /\ Terminado
    /\ resultado = "retorno"
    /\ \E i \in DOMAIN salida : salida[i].clase = "primero"
    /\ \E i \in DOMAIN salida : salida[i].clase = "valor"

-----------------------------------------------------------------------------
(* Vocabulary of the properties of xml_to_dict.                            *)

\* the positions of the children of e with tag t, in document order
Ocurrencias(e, t) ==
    SelectSeq([i \in 1..Len(e.hijos) |-> i], LAMBDA i : e.hijos[i].tag = t)

\* what xml_to_dict returns for the element at position p of the input
ResultadoEn(p) == XmlToDict(NodoEn(element, p), p)

\* the positions of the elements that have children
ConHijos == {p \in Posiciones(element) : Len(NodoEn(element, p).hijos) > 0}

RECURSIVE Blanquear(_)

\* e with every text of whitespace alone replaced by None
Blanquear(e) ==
    [e EXCEPT !.text = IF @ # <<>> /\ Strip(@[1]) = "" THEN <<>> ELSE @,
              !.hijos = [i \in 1..Len(@) |-> Blanquear(@[i])]]

(* C11.  When a tag occurs n >= 2 times among the children of an element,  *)
(* the entry of the tag is one flat list of the n child values in document *)
(* order, none of them a list; this holds for the returned value and at    *)
(* every level below.                                                      *)
C11_ListaPlana ==
    result # Nada =>
        /\ \A p \in ConHijos : \A t \in Tags :
               LET e == NodoEn(element, p)
                   occ == Ocurrencias(e, t)
                   entrada == Obtener(ResultadoEn(p), t)
               IN Len(occ) >= 2 =>
                      /\ EsLista(entrada)
                      /\ Len(entrada.hijos) = Len(occ)
                      /\ \A k \in 1..Len(occ) :
                             /\ entrada.hijos[k] = ResultadoEn(Append(p, occ[k]))
                             /\ ~EsLista(entrada.hijos[k])
        /\ result = ResultadoEn(<<>>)

\* three children with one tag, the first two with different values
C11_Testigo ==
    /\ result # Nada
    /\ Len(Ocurrencias(element, "a")) = 3
    /\ Obtener(result, "a").hijos[1] # Obtener(result, "a").hijos[2]
    /\ Obtener(result, "a").hijos[2] # Obtener(result, "a").hijos[3]

(* C12.  In every dict that xml_to_dict builds, the entry of a tag is a    *)
(* list exactly when the tag occurs more than once among the children, and *)
(* the dict has an entry for a tag exactly when the tag occurs; the order  *)
(* of the children and the kind of their values (str or dict) play no part.*)
C12_ListaSiRepetida ==
    result # Nada =>
        \A p \in ConHijos : \A t \in Tags :
            LET n == Len(Ocurrencias(NodoEn(element, p), t))
                d == ResultadoEn(p)
            IN /\ EsDict(d)
               /\ Tiene(d, t) <=> n >= 1
               /\ n >= 1 => (EsLista(Obtener(d, t)) <=> n >= 2)
               /\ p = <<>> => d = result

\* a tag occurs twice, first with a dict value and then with a str value,
\* and another tag occurs once between them
C12_Testigo ==
    /\ result # Nada
    /\ Len(element.hijos) = 3
    /\ element.hijos[1].tag = "a"
    /\ element.hijos[2].tag = "b"
    /\ element.hijos[3].tag = "a"
    /\ ResultadoEn(<<1>>).tipo = "dict"
    /\ ResultadoEn(<<3>>).tipo = "str"

(* C16.  As stated: the value xml_to_dict returns shares no mutable object *)
(* with the input tree, so no later change of the result changes the       *)
(* element tree or its attribute mappings.                                 *)
C16_Original == [][element' = element]_vars

(* C17.  max_depth(root) is 0 for a root without children and otherwise 1  *)
(* plus the largest max_depth of a child; it is the number of parent-child *)
(* steps on the longest path from the root to a leaf.                      *)
C17_Profundidad ==
    profundidad # SinMedir =>
        /\ profundidad = Maximo({Len(p) : p \in Posiciones(element)})
        /\ Len(element.hijos) = 0 => profundidad = 0
        /\ Len(element.hijos) > 0 =>
               profundidad = 1 + Maximo({MaxDepth(element.hijos[i], 0)
                                           : i \in 1..Len(element.hijos)})

\* measured: a root with a leaf child and a child that has a child
C17_Testigo ==
    /\ profundidad = 2
    /\ Len(element.hijos) = 2
    /\ \E i \in 1..2 : Len(element.hijos[i].hijos) = 0

(* C18.  xml_to_dict returns the same value for a tree and for the tree    *)
(* with every whitespace-only text, at any level, replaced by no text.     *)
C18_BlancoComoVacio ==
    result # Nada => result = XmlToDict(Blanquear(element), <<>>)

\* converted: a tree with whitespace-only text in the root and in a leaf
C18_Testigo ==
    /\ result # Nada
    /\ element.text = <<" ">>
    /\ \E i \in 1..Len(element.hijos) :
           /\ element.hijos[i].text = <<" ">>
           /\ Len(element.hijos[i].hijos) = 0

(* C19.  For an element with non-blank text and at least one child,        *)
(* xml_to_dict returns a dict with the entry '#text' holding the stripped  *)
(* text, one entry per distinct child tag holding the values of all the    *)
(* children with that tag, '@attributes' when the element has attributes,  *)
(* and nothing else.                                                       *)
C19_TextoEHijos ==
    result # Nada =>
        \A p \in ConHijos :
            LET e == NodoEn(element, p)
                d == ResultadoEn(p)
                valores(t) == IF EsLista(Obtener(d, t))
                              THEN Len(Obtener(d, t).hijos) ELSE 1
            IN ConTexto(e) =>
                   /\ EsDict(d)
                   /\ p = <<>> => d = result
                   /\ Tiene(d, "#text")
                   /\ Obtener(d, "#text") = Cadena(Strip(e.text[1]))
                   /\ SubSeq(Obtener(d, "#text").valor, 1, 1) # " "
                   /\ \A t \in Tags :
                          /\ Tiene(d, t) <=> Len(Ocurrencias(e, t)) > 0
                          /\ Tiene(d, t) => valores(t) = Len(Ocurrencias(e, t))
                   /\ {d.claves[i] : i \in 1..Len(d.claves)}
                          = {"#text"}
                            \cup {e.hijos[i].tag : i \in 1..Len(e.hijos)}
                            \cup (IF e.attrib # {} THEN {"@attributes"} ELSE {})
                   /\ Cardinality({d.claves[i] : i \in 1..Len(d.claves)})
                          = Len(d.claves)

\* converted: a root with text " 20 " and children with two different tags
C19_Testigo ==
    /\ result # Nada
    /\ element.text = <<" 20 ">>
    /\ {element.hijos[i].tag : i \in 1..Len(element.hijos)} = Tags

-----------------------------------------------------------------------------
RECURSIVE Hojas(_), HojasDe(_)

\* the number of scalar leaves of v, counted by a traversal of its own
Hojas(v) == IF EsContenedor(v) THEN HojasDe(v.hijos) ELSE 1

HojasDe(hs) == IF hs = <<>> THEN 0 ELSE Hojas(Head(hs)) + HojasDe(Tail(hs))

RECURSIVE Aplanado(_, _)

\* the entries the rendered paths give: dict keys joined by '.', list
\* elements by a bracketed zero-based index, one entry per scalar leaf
Aplanado(v, ruta) ==
    IF EsDict(v)
    THEN UNION {Aplanado(v.hijos[i],
                         IF ruta = "" THEN v.claves[i]
                         ELSE ruta \o "." \o v.claves[i])
                  : i \in 1..Tam(v)}
    ELSE IF EsLista(v)
    THEN UNION {Aplanado(v.hijos[i], ruta \o "[" \o ToString(i - 1) \o "]")
                  : i \in 1..Tam(v)}
    ELSE {[columna |-> ruta, valor |-> v]}

\* a dict whose values are all scalars
EsPlano(v) == EsDict(v) /\ \A i \in 1..Tam(v) : ~EsContenedor(v.hijos[i])

\* the direct key -> value view of a dict
VistaDirecta(v) ==
    {[columna |-> v.claves[i], valor |-> v.hijos[i]] : i \in 1..Tam(v)}

RECURSIVE EnOrden(_)

\* the columns cs one after the other
EnOrden(cs) ==
    IF cs = {} THEN <<>>
    ELSE LET c == CHOOSE x \in cs : TRUE IN <<c>> \o EnOrden(cs \ {c})

\* the one row of a DataFrame as a dict, column -> value
ComoDict(df) ==
    LET fila == EnOrden(df.columnas)
    IN Dict([i \in 1..Len(fila) |-> fila[i].columna],
            [i \in 1..Len(fila) |-> fila[i].valor])

(* C13.  As stated: the flattened record has exactly as many entries as    *)
(* the tree has scalar leaves; dict and list nodes contribute no entry of  *)
(* their own.                                                              *)
C13_Original ==
    df_flat # Nada => Cardinality(df_flat.columnas) = Hojas(datos)

(* C14.  As stated: every scalar leaf is keyed by its rendered path, dict  *)
(* keys joined by '.' and each list element by a bracketed zero-based      *)
(* index appended to the path of the list.                                 *)
C14_Original ==
    df_flat # Nada => df_flat.columnas = Aplanado(datos, "")

-----------------------------------------------------------------------------
\* what call j has printed so far
SalidaDe(j) == IF j = ramas.activa THEN salida ELSE ramas.hilos[j].salida

\* call j has returned
TerminadoEl(j) ==
    IF j = ramas.activa THEN pila = <<>> ELSE ramas.hilos[j].pila = <<>>

\* the text of a line
Texto(linea) == [x \in (DOMAIN linea) \ {"nodo"} |-> linea[x]]

Textos(lineas) == [i \in 1..Len(lineas) |-> Texto(lineas[i])]

RECURSIVE Concatenadas(_, _)

\* the buffers of the calls j..k, one after the other
Concatenadas(j, k) ==
    IF j > k THEN <<>> ELSE Textos(SalidaDe(j)) \o Concatenadas(j + 1, k)

-----------------------------------------------------------------------------
(* C21.  As stated: validar_xml_schema returns True exactly when the file  *)
(* parses as well-formed XML and returns False in every other case; it     *)
(* never raises.                                                           *)
C21_Original ==
    retorno # Nada =>
        /\ retorno.tipo = "valor"
        /\ retorno.valor = (ErrorDeParse(archivos) = "")

-----------------------------------------------------------------------------
\* the line has a character that is not whitespace
NoBlanca(linea) == \E i \in 1..Len(linea) : SubSeq(linea, i, i) \notin Blancos

\* the non-blank lines of a file, in file order
NoBlancas(a) == SelectSeq(a.lineas, NoBlanca)

(* C22.  cargar_jsonl returns one record per non-blank line, in file       *)
(* order: the list it returns holds the documents of the non-blank lines   *)
(* and nothing else, and a line that is empty or only whitespace is never  *)
(* the line an exception comes from.                                       *)
C22_UnoPorLinea ==
    (locales # Nada /\ archivos # Ausente) =>
        /\ (retorno # Nada /\ retorno.tipo = "valor") =>
              /\ Len(retorno.valor) = Len(NoBlancas(archivos))
              /\ \A k \in 1..Len(retorno.valor) :
                     retorno.valor[k] = JsonLoads(NoBlancas(archivos)[k])
        /\ (retorno # Nada /\ retorno.tipo = "excepcion") =>
              NoBlanca(archivos.lineas[locales.i])
        /\ Len(locales.datos) =
              Len(SelectSeq(SubSeq(archivos.lineas, 1, locales.i - 1), NoBlanca))

C22_Testigo ==
    /\ locales # Nada
    /\ archivos # Ausente
    /\ retorno # Nada
    /\ retorno.tipo = "valor"
    /\ Len(archivos.lineas) = 3
    /\ Len(retorno.valor) = 1
    /\ archivos.lineas[1] = "  \n"
    /\ archivos.lineas[3] = "\n"

-----------------------------------------------------------------------------
\* the key and index segments of a rendered path: every key of the inputs
\* has one "k", every index segment one "["
Segmentos(ruta) ==
    Cardinality({i \in 1..Len(ruta) : SubSeq(ruta, i, i) \in {"k", "["}})

(* C23.  For every maxDepth >= 0 the path of every printed line has at     *)
(* most maxDepth key/index segments, and in every call the number of       *)
(* segments of its prefix plus its remaining depth is the initial          *)
(* maxDepth.                                                               *)
C23_SegmentosMasResto ==
    (datos # Nada /\ max_inicial >= 0) =>
        /\ \A i \in DOMAIN salida : Segmentos(salida[i].ruta) <= max_inicial
        /\ \A j \in DOMAIN pila :
               Segmentos(pila[j].prefijo) + pila[j].max_profundidad
                   = max_inicial

C23_Testigo ==
    /\ datos # Nada
    /\ max_inicial = 3
    /\ Terminado
    /\ \E i \in Limites : Segmentos(salida[i].ruta) = 3
    /\ \E i \in DOMAIN salida : salida[i].clase = "primero"

-----------------------------------------------------------------------------
(* C24.  As stated: within one report two different nodes never get the    *)
(* same rendered path, whatever strings the keys of the dicts are.         *)
C24_Original ==
    datos # Nada =>
        \A i \in Cabeceras : \A j \in Cabeceras :
            salida[i].nodo # salida[j].nodo => salida[i].ruta # salida[j].ruta

-----------------------------------------------------------------------------
(* C25.  For a childless element with non-blank text xml_to_dict returns   *)
(* the stripped text alone, also when the element has attributes; every    *)
(* other element gives a dict, and that dict has '@attributes' exactly     *)
(* when the element has attributes.                                        *)
C25_TextoSolo ==
    result # Nada =>
        \A p \in Posiciones(element) :
            LET e == NodoEn(element, p)
                d == ResultadoEn(p)
            IN /\ p = <<>> => d = result
               /\ IF Len(e.hijos) = 0 /\ e.text # <<>> /\ NoBlanca(e.text[1])
                  THEN /\ d = Cadena(Strip(e.text[1]))
                       /\ NoBlanca(SubSeq(d.valor, 1, 1))
                       /\ NoBlanca(SubSeq(d.valor, Len(d.valor), Len(d.valor)))
                  ELSE /\ EsDict(d)
                       /\ Tiene(d, "@attributes") <=> e.attrib # {}
                       /\ Tiene(d, "@attributes") =>
                              Obtener(d, "@attributes") = Referencia(p)

\* converted: a childless child with attributes and text, whose value is
\* the text alone, next to a childless child with attributes and no text
\* to speak of, whose value is a dict with '@attributes'
C25_Testigo ==
    /\ result # Nada
    /\ Len(element.hijos) = 2
    /\ \A i \in 1..2 : element.hijos[i].attrib # {}
                          /\ Len(element.hijos[i].hijos) = 0
    /\ ResultadoEn(<<1>>) = Cadena("20")
    /\ Tiene(ResultadoEn(<<2>>), "@attributes")

-----------------------------------------------------------------------------
(* C26.  Every round of limpiar that finds its path absent leaves the      *)
(* working directory as it is and raises nothing, and when limpiar returns *)
(* none of the seven paths exists, whatever existed when it was called.    *)
C26_TodoBorrado ==
    [][(locales # Nada /\ locales.pc \in {"limpiar_dirs", "limpiar_archivos"}) =>
          /\ LET rutas == IF locales.pc = "limpiar_dirs"
                          THEN Directorios
                          ELSE Comprimidos
             IN (locales.i <= Len(rutas)
                    /\ ~Existe(archivos, rutas[locales.i])) =>
                    /\ archivos' = archivos
                    /\ retorno' = Nada
                    /\ locales'.pc # "fin"
          /\ retorno' = Devuelve("None") =>
                 \A r \in Rutas : ~Existe(archivos', r)]_vars

\* limpiar returned after a call that found datos_ejemplo with logs.txt.gz
\* in it and datos.zip, and neither extracted_tar nor datos.tar
C26_Testigo ==
    /\ locales # Nada
    /\ locales.pc = "fin"
    /\ retorno = Devuelve("None")
    /\ Existe(locales.al_limpiar, "datos_ejemplo/logs.txt.gz")
    /\ Existe(locales.al_limpiar, "datos.zip")
    /\ ~Existe(locales.al_limpiar, "extracted_tar")
    /\ ~Existe(locales.al_limpiar, "datos.tar")

-----------------------------------------------------------------------------
(* C27.  In a run of the script logs.txt.gz does not exist until           *)
(* ejemplo_gzip step 1 and exists from then on, datos.tar does not hold    *)
(* it, datos.tar.gz and datos.zip do, and the sizes of datos_ejemplo       *)
(* measured in ejemplo_gzip step 2 and in ejemplo_zip are larger than the  *)
(* one measured in ejemplo_tar.                                            *)
C27_Orden ==
    LET gz == "datos_ejemplo/logs.txt.gz"
        pc == locales.pc
    IN /\ pc \in {"crear_datos", "tar", "gzip_1"} => ~Existe(archivos, gz)
       /\ pc \in {"gzip_2", "zip", "pregunta"} => Existe(archivos, gz)
       /\ pc \in {"gzip_1", "gzip_2", "zip", "pregunta"} =>
              "logs.txt.gz" \notin archivos.miembros["datos.tar"]
       /\ pc \in {"zip", "pregunta"} =>
              "logs.txt.gz" \in archivos.miembros["datos.tar.gz"]
       /\ pc = "pregunta" =>
              "logs.txt.gz" \in archivos.miembros["datos.zip"]
       /\ pc \notin {"crear_datos", "tar", "gzip_1", "gzip_2"} =>
              locales.original_targz > locales.original_tar
       /\ pc \notin {"crear_datos", "tar", "gzip_1", "gzip_2", "zip"} =>
              locales.original_zip > locales.original_tar

\* as stated: in every run of the script
C27_Original ==
    (locales # Nada /\ locales.al_empezar # Nada) => C27_Orden

\* in a run that starts without datos_ejemplo/logs.txt.gz
C27_DesdeLimpio ==
    (/\ locales # Nada
     /\ locales.al_empezar # Nada
     /\ ~Existe(locales.al_empezar, "datos_ejemplo/logs.txt.gz")) => C27_Orden

\* the three archives are written in a run that started without logs.txt.gz
\* but with the datos.tar of an earlier run
C27_Testigo ==
    /\ locales # Nada
    /\ locales.al_empezar # Nada
    /\ ~Existe(locales.al_empezar, "datos_ejemplo/logs.txt.gz")
    /\ Existe(locales.al_empezar, "datos.tar")
    /\ locales.pc = "pregunta"
    /\ "logs.txt.gz" \in archivos.miembros["datos.zip"]
    /\ locales.original_zip > locales.original_tar

-----------------------------------------------------------------------------
(* C28.  As long as no call has raised anything but an Exception, the      *)
(* calls made are the files of the list in list order, once each, the loop *)
(* goes on to the next file, every file whose call raised has its error    *)
(* line, in order, and the loop ends only after the last file.             *)
ErroresDe(intentos, desenlaces) ==
    LET Fallo(k) == desenlaces[k] # "return"
        RECURSIVE Lineas(_)
        Lineas(k) ==
            IF k = 0 THEN <<>>
            ELSE IF Fallo(k)
                 THEN Append(Lineas(k - 1), LineaError(intentos[k], desenlaces[k]))
                 ELSE Lineas(k - 1)
    IN Lineas(Len(intentos))

C28_TodosLosArchivos ==
    (/\ locales # Nada
     /\ \A k \in 1..Len(locales.desenlaces) :
            locales.desenlaces[k] # "KeyboardInterrupt") =>
        /\ locales.intentos = SubSeq(ArchivosCsv, 1, Len(locales.intentos))
        /\ locales.pc = "bucle" => locales.i = Len(locales.intentos) + 1
        /\ locales.pc = "fin" => /\ locales.intentos = ArchivosCsv
                                 /\ retorno = Devuelve("None")
        /\ salida = ErroresDe(locales.intentos, locales.desenlaces)

\* the run ended after the calls for the first and the third file raised
\* and the others returned
C28_Testigo ==
    /\ locales # Nada
    /\ locales.pc = "fin"
    /\ locales.desenlaces = <<"FileNotFoundError", "return", "ParserError",
                              "return", "return">>
    /\ Len(salida) = 2
    /\ salida[1].archivo = "empleados_simple.csv"
    /\ salida[2].archivo = "transacciones_pipe.csv"

-----------------------------------------------------------------------------
(* C29.  When analizar_grafo_json returns, every researcher has in         *)
(* colaboraciones one entry per COLABORA_CON edge that has it as source    *)
(* plus one per COLABORA_CON edge that has it as destination, edges of     *)
(* other types count for nothing, and the top list has at most 3           *)
(* researchers, each printed with its count, in non-increasing order of    *)
(* count, none of the others having more than one of the list.             *)
Colaboraciones(inv) ==
    Cardinality({k \in 1..Len(datos.aristas) :
                    /\ datos.aristas[k].tipo = "COLABORA_CON"
                    /\ datos.aristas[k].fuente = inv})
    + Cardinality({k \in 1..Len(datos.aristas) :
                    /\ datos.aristas[k].tipo = "COLABORA_CON"
                    /\ datos.aristas[k].destino = inv})

C29_CuentaYTop ==
    (locales # Nada /\ locales.pc = "fin" /\ retorno = Devuelve("None")) =>
        LET c == locales.colaboraciones
            top == locales.top_colaboradores
            EnTop == {top[k].id : k \in 1..Len(top)}
        IN /\ \A inv \in Investigadores :
                  Cardinality({k \in 1..Len(c) :
                                  c[k].id = inv
                                  /\ Len(c[k].lista) = Colaboraciones(inv)})
                      = IF Colaboraciones(inv) > 0 THEN 1 ELSE 0
           /\ \A k \in 1..Len(c) : c[k].id \in Investigadores
                                      /\ Len(c[k].lista) > 0
           /\ Len(top) <= 3
           /\ Cardinality(EnTop) = Len(top)
           /\ Len(salida) = Len(top)
           /\ \A k \in 1..Len(top) :
                  /\ salida[k].nombre = Nombre(top[k].id)
                  /\ salida[k].colaboraciones = Colaboraciones(top[k].id)
           /\ \A j, k \in 1..Len(top) :
                  j < k => salida[j].colaboraciones >= salida[k].colaboraciones
           /\ \A inv \in Investigadores \ EnTop :
                  \A k \in 1..Len(top) :
                      Colaboraciones(inv) <= salida[k].colaboraciones

\* a graph of three collaborations among four researchers: the list has
\* the three with most, the one credited twice first, and leaves one out
C29_Testigo ==
    /\ locales # Nada
    /\ locales.pc = "fin"
    /\ retorno = Devuelve("None")
    /\ Len(datos.aristas) = 3
    /\ Len(locales.colaboraciones) = 4
    /\ locales.colaboraciones[1].id # locales.top_colaboradores[1].id
    /\ Len(salida) = 3
    /\ salida[1].colaboraciones = 2
    /\ salida[3].colaboraciones = 1

-----------------------------------------------------------------------------
(* C30.  As stated: when every file of the list is absent or an image,     *)
(* comparar_tamaños_compresion ends by returning, having printed one row   *)
(* for each file that exists, in list order, and none for the others.      *)
C30_Original ==
    (/\ locales # Nada
     /\ locales.pc = "fin"
     /\ \A k \in 1..Len(ArchivosImagen) : archivos[ArchivosImagen[k]] # "otro") =>
        /\ retorno = Devuelve("None")
        /\ LET Existente(a) == archivos[a] = "imagen"
               existentes == SelectSeq(ArchivosImagen, Existente)
           IN /\ Len(salida) = Len(existentes)
              /\ \A k \in 1..Len(salida) : salida[k][1] = Str(existentes[k])

=============================================================================
